---------------------------- MODULE Spec2Model ----------------------------
(***************************************************************************)
(* Model of the conversion-log core of clickfast (src/csv_handler.py and   *)
(* its callers in src/main.py): per-account CSV logs kept in an object     *)
(* store, appended to by add_conversion and split into a recent log and a  *)
(* history log by cleanup_old_conversions.                                  *)
(*                                                                         *)
(* Text is a sequence of tokens.  A token stands for a fixed run of        *)
(* characters: the separators "\n" (NL), "," (COMMA) and " " (SP), the     *)
(* literals the code tests with startswith (HDR, PARAMS), the other header *)
(* columns, the configured label and currency, and atoms for click ids,    *)
(* timestamps and values.  split, join, strip and startswith are computed  *)
(* on the token sequence exactly as Python computes them on characters.    *)
(***************************************************************************)
EXTENDS Integers, Sequences, FiniteSets, TLC

VARIABLES store, now, last, appended, pc, loc,
          failed_attempts, blocked_ips, authClock

vars == <<store, now, last, appended, pc, loc, failed_attempts, blocked_ips,
          authClock>>

\* The dashboard login state of auth.py (lines 16-17) and its clock, in
\* seconds; the log handlers never touch them.
authVars == <<failed_attempts, blocked_ips, authClock>>

-----------------------------------------------------------------------------
(* Tokens *)

NL == "\n"
COMMA == ","
SP == " "
HDR == "Google Click ID"
PARAMS == "Parameters:"
CONVERSION_NAME == "purchase"
CURRENCY == "BRL"
CSV_EXT == ".csv"
HISTORY_SUFFIX == "_history"

Whitespace == {NL, SP}

\* The header without its line break (csv_handler.py line 111, 184, 361).
HeaderLine ==
  <<HDR, COMMA, "Conversion Name", COMMA, "Conversion Time", COMMA,
    "Conversion Value", COMMA, "Conversion Currency", COMMA, "Order ID">>

\* The value the code assigns to `header`: the header line and "\n".
Header == HeaderLine \o <<NL>>

-----------------------------------------------------------------------------
(* Python's Optional[str] *)

None == [none |-> TRUE, text |-> <<>>]
Some(t) == [none |-> FALSE, text |-> t]

\* Truthiness of an Optional[str]: None and "" are both falsy.
Truthy(o) == ~o.none /\ o.text # <<>>

-----------------------------------------------------------------------------
(* str methods *)

StartsWith(line, tok) == Len(line) >= 1 /\ line[1] = tok

\* line.strip() == ""
IsBlank(line) == \A i \in 1..Len(line) : line[i] \in Whitespace

\* s.strip()
Strip(s) ==
  LET keep == {i \in 1..Len(s) : s[i] \notin Whitespace}
  IN  IF keep = {} THEN <<>>
      ELSE LET lo == CHOOSE i \in keep : \A j \in keep : i <= j
               hi == CHOOSE i \in keep : \A j \in keep : j <= i
           IN  SubSeq(s, lo, hi)

RECURSIVE Split(_, _)
\* s.split(sep): always at least one piece; "".split(sep) is [""].
Split(s, sep) ==
  LET at == {i \in 1..Len(s) : s[i] = sep}
  IN  IF at = {} THEN <<s>>
      ELSE LET i == CHOOSE k \in at : \A j \in at : k <= j
           IN  <<SubSeq(s, 1, i - 1)>> \o Split(SubSeq(s, i + 1, Len(s)), sep)

RECURSIVE Join(_, _)
\* sep.join(parts)
Join(parts, sep) ==
  IF parts = <<>> THEN <<>>
  ELSE IF Len(parts) = 1 THEN parts[1]
  ELSE parts[1] \o <<sep>> \o Join(Tail(parts), sep)

\* The filter the code applies to find data lines (lines 155, 253, 261).
IsDataLine(line) ==
  ~StartsWith(line, PARAMS) /\ ~StartsWith(line, HDR) /\ ~IsBlank(line)

IsHeaderLine(line) == StartsWith(line, HDR)

-----------------------------------------------------------------------------
(* Time.  An instant is a number of hours; the clock `now` counts          *)
(* subdivisions of an hour (datetime.now() is finer than the stored        *)
(* format).  Local wall-clock time is the instant shifted by the zone's    *)
(* offset.                                                                 *)

\* Clock subdivisions per hour.
Res == 2
\* settings.TIMEZONE = America/Sao_Paulo: UTC-3.
TzOffset == -3
\* Default archival threshold in hours.
DefaultHours == 25
\* The instants at which the model observes the clock: the start, the
\* archival threshold after it, and one subdivision past each.
ClockValues == {0, 1, Res * DefaultHours, Res * DefaultHours + 1}

MaxNow == Res * DefaultHours + 1
MaxHour == (MaxNow \div Res) + 1
WallHours == (TzOffset - 1)..(MaxHour + 1)

\* strftime('%Y-%m-%d %H:%M:%S') of a local wall-clock hour.
strftime(wall) == "T" \o ToString(wall)

\* An ISO-8601 input with a Z suffix naming a UTC hour.
IsoZ(h) == "I" \o ToString(h) \o "Z"

\* datetime.fromisoformat(s.replace('Z', '+00:00')): the UTC hour, or a
\* failure for anything that is not an ISO timestamp.
fromisoformat(s) ==
  IF \E h \in WallHours : IsoZ(h) = s
  THEN [ok |-> TRUE, utc |-> CHOOSE h \in WallHours : IsoZ(h) = s]
  ELSE [ok |-> FALSE, utc |-> 0]

\* dt.astimezone(self.timezone): the local wall-clock hour of a UTC hour.
astimezone(utc) == utc + TzOffset

\* datetime.strptime(field, '%Y-%m-%d %H:%M:%S'): the field must be exactly
\* one canonical timestamp.
strptime(field) ==
  IF Len(field) = 1 /\ \E w \in WallHours : strftime(w) = field[1]
  THEN [ok |-> TRUE, wall |-> CHOOSE w \in WallHours : strftime(w) = field[1]]
  ELSE [ok |-> FALSE, wall |-> 0]

\* self.timezone.localize(t): the instant (in clock units) of a wall-clock hour.
localize(wall) == (wall - TzOffset) * Res

\* Lines 135-145: the formatted conversion time, with the fallback to
\* datetime.now(self.timezone) when the input does not parse.
FormatConversionTime(conversion_time, clock) ==
  LET p == fromisoformat(conversion_time)
  IN  IF p.ok THEN strftime(astimezone(p.utc))
      ELSE strftime(astimezone(clock \div Res))

-----------------------------------------------------------------------------
(* The object store (R2Storage).  store maps each existing key to its     *)
(* content; a key outside DOMAIN store does not exist.                     *)

\* f"{src}.csv"
Key(src) == src \o <<CSV_EXT>>

\* f"{src}_history"
HistorySrc(src) == src \o <<HISTORY_SUFFIX>>

\* R2Storage.get_csv: None when the key does not exist, and also None when
\* the read fails for any other reason (the `except Exception` branch).
get_csv(st, src, fail) ==
  IF fail \/ Key(src) \notin DOMAIN st THEN None ELSE Some(st[Key(src)])

\* The store after a successful put_object.
Put(st, src, content) ==
  [k \in DOMAIN st \cup {Key(src)} |-> IF k = Key(src) THEN content ELSE st[k]]

\* R2Storage.save_csv: the store afterwards and the boolean it returns.
save_csv(st, src, content, fail) ==
  IF fail THEN [store |-> st, ok |-> FALSE]
  ELSE [store |-> Put(st, src, content), ok |-> TRUE]

-----------------------------------------------------------------------------
(* CSVHandler: the text each handler computes *)

\* str(conversion_value) if conversion_value is not None else "".
\* An Optional[float] is <<>> (None) or <<v>>; floats here are whole numbers.
ValueText(conversion_value) ==
  IF conversion_value = <<>> THEN <<>>
  ELSE <<ToString(conversion_value[1]) \o ".0">>

\* order_id if order_id else ""
OrderText(order_id) == IF Truthy(order_id) THEN order_id.text ELSE <<>>

\* The row of lines 158 and 187.
NewRow(gclid, formatted_time, conversion_value, order_id) ==
  gclid \o <<COMMA, CONVERSION_NAME, COMMA, formatted_time, COMMA>>
        \o ValueText(conversion_value) \o <<COMMA, CURRENCY, COMMA>>
        \o OrderText(order_id)

\* _create_new_csv: header + row.
CreateNewCsv(row) == Header \o row

\* Lines 152-159: the content written when the log exists.
AppendCsv(existing_csv, new_row) ==
  LET lines == Split(Strip(existing_csv), NL)
      header_lines == SelectSeq(lines, IsHeaderLine)
      data_lines == SelectSeq(lines, IsDataLine)
  IN  Join(header_lines, NL) \o <<NL>> \o Join(data_lines \o <<new_row>>, NL)

\* Lines 150-162: the content add_conversion saves.
AddContent(existing, new_row) ==
  IF Truthy(existing) THEN AppendCsv(existing.text, new_row)
  ELSE CreateNewCsv(new_row)

\* Lines 251-254 and 259-262: the number of data lines of a log.
CountData(csv) ==
  IF Truthy(csv)
  THEN Len(SelectSeq(Split(Strip(csv.text), NL), IsDataLine))
  ELSE 0

\* get_conversion_count, with a working store.
get_conversion_count(st, src) ==
  LET recent == CountData(get_csv(st, src, FALSE))
      history == CountData(get_csv(st, HistorySrc(src), FALSE))
  IN  [recent |-> recent, history |-> history, total |-> recent + history]

\* IsOld with the comparison of line 312 weakened to <=.
IsOldInclusive(line, cutoff_time) ==
  LET parts == Split(line, COMMA)
  IN  /\ Len(parts) >= 3
      /\ strptime(parts[3]).ok
      /\ localize(strptime(parts[3]).wall) <= cutoff_time

\* IsOld with the two "keep it in recent" branches (lines 316-321) archiving.
IsOldOrMalformed(line, cutoff_time) ==
  LET parts == Split(line, COMMA)
  IN  \/ Len(parts) < 3
      \/ ~strptime(parts[3]).ok
      \/ localize(strptime(parts[3]).wall) < cutoff_time

\* Lines 303-321: TRUE when the line goes to old_rows.  A line with fewer
\* than three fields, or whose third field does not parse, stays recent.
IsOld(line, cutoff_time) ==
  LET parts == Split(line, COMMA)
  IN  /\ Len(parts) >= 3
      /\ strptime(parts[3]).ok
      /\ localize(strptime(parts[3]).wall) < cutoff_time

RECURSIVE ScanLines(_, _, _)
\* Lines 288-321: the loop over the lines, carrying header_line,
\* recent_rows and old_rows in acc.
ScanLines(lines, cutoff_time, acc) ==
  IF lines = <<>> THEN acc
  ELSE LET line == Head(lines)
           next ==
             IF StartsWith(line, HDR)
               THEN [acc EXCEPT !.header_line = Some(line)]
             ELSE IF StartsWith(line, PARAMS) \/ IsBlank(line)
               THEN acc
             ELSE IF IsOld(line, cutoff_time)
               THEN [acc EXCEPT !.old_rows = Append(@, line)]
             ELSE [acc EXCEPT !.recent_rows = Append(@, line)]
       IN  ScanLines(Tail(lines), cutoff_time, next)

\* Lines 285-321.
Partition(csv_content, cutoff_time) ==
  ScanLines(Split(Strip(csv_content), NL), cutoff_time,
            [header_line |-> None, recent_rows |-> <<>>, old_rows |-> <<>>])

\* RecentCsv that writes the old rows back as well as the recent ones.
RecentCsvKeepOld(part) ==
  IF Truthy(part.header_line)
  THEN part.header_line.text \o <<NL>> \o Join(part.recent_rows \o part.old_rows, NL)
  ELSE Join(part.recent_rows \o part.old_rows, NL)

\* Lines 324-327: the content written back to the main log.
RecentCsv(part) ==
  IF Truthy(part.header_line)
  THEN IF part.recent_rows # <<>>
       THEN part.header_line.text \o <<NL>> \o Join(part.recent_rows, NL)
       ELSE part.header_line.text
  ELSE Join(part.recent_rows, NL)

\* UpdatedHistory that starts a new history file even when one exists.
UpdatedHistoryOverwrite(existing_history, rows) ==
  Header \o <<NL>> \o Join(rows, NL)

\* Lines 356-362 of _append_to_history: the content written to history.
UpdatedHistory(existing_history, rows) ==
  IF Truthy(existing_history)
  THEN Strip(existing_history.text) \o <<NL>> \o Join(rows, NL)
  ELSE Header \o <<NL>> \o Join(rows, NL)

\* Line 285: datetime.now(self.timezone) - timedelta(hours=hours).
CutoffTime(clock, hours) == clock - hours * Res

-----------------------------------------------------------------------------
(* CSVHandler: whole handlers.  fl is the tuple of failures the store     *)
(* injects into the handler's successive store calls (TRUE: that call      *)
(* raises inside R2Storage).  Each operator gives the store afterwards and *)
(* what the handler returns.                                               *)

NoFail == <<FALSE, FALSE, FALSE, FALSE>>
AnyFail == {<<a, b, c, d>> : a \in BOOLEAN, b \in BOOLEAN, c \in BOOLEAN, d \in BOOLEAN}
\* Failures of a handler that makes two store calls.
TwoCallFail == {f \in AnyFail : ~f[3] /\ ~f[4]}

\* The store calls a handler makes, in order: get_object and put_object.
Get(src) == <<"get", Key(src)>>
PutCall(src) == <<"put", Key(src)>>

\* create_empty_source without the "already exists" return of line 108.
create_empty_source_Overwrite(st, src, fl) ==
  LET w == save_csv(st, src, Header, fl[2])
  IN  [store |-> w.store, ok |-> w.ok, calls |-> <<Get(src), PutCall(src)>>]

\* create_empty_source (lines 102-116).
create_empty_source(st, src, fl) ==
  LET existing_csv == get_csv(st, src, fl[1])
  IN  IF Truthy(existing_csv)
      THEN [store |-> st, ok |-> TRUE, calls |-> <<Get(src)>>]
      ELSE LET w == save_csv(st, src, Header, fl[2])
           IN  [store |-> w.store, ok |-> w.ok, calls |-> <<Get(src), PutCall(src)>>]

\* add_conversion (lines 118-165).
add_conversion(st, clock, src, gclid, conversion_time, conversion_value, order_id, fl) ==
  LET formatted_time == FormatConversionTime(conversion_time, clock)
      new_row == NewRow(gclid, formatted_time, conversion_value, order_id)
      existing_csv == get_csv(st, src, fl[1])
      w == save_csv(st, src, AddContent(existing_csv, new_row), fl[2])
  IN  [store |-> w.store, ok |-> w.ok, calls |-> <<Get(src), PutCall(src)>>]

\* _append_to_history that starts a new history file without reading the
\* existing one.
append_to_history_NoRead(st, src, rows, rfail, wfail) ==
  LET history_key == HistorySrc(src)
      w == save_csv(st, history_key, UpdatedHistory(None, rows), wfail)
  IN  [store |-> w.store, ok |-> w.ok, calls |-> <<PutCall(history_key)>>]

\* _append_to_history (lines 342-364).
append_to_history(st, src, rows, rfail, wfail) ==
  LET history_key == HistorySrc(src)
      existing_history == get_csv(st, history_key, rfail)
      w == save_csv(st, history_key, UpdatedHistory(existing_history, rows), wfail)
  IN  [store |-> w.store, ok |-> w.ok,
       calls |-> <<Get(history_key), PutCall(history_key)>>]

\* cleanup_old_conversions that appends to history whether or not a row
\* was old (without the test of line 332).
cleanup_old_conversions_Eager(st, clock, src, hours, fl) ==
  LET csv_content == get_csv(st, src, fl[1])
  IN  IF ~Truthy(csv_content)
      THEN [store |-> st, archived |-> 0, remaining |-> 0, calls |-> <<Get(src)>>]
      ELSE LET part == Partition(csv_content.text, CutoffTime(clock, hours))
               w == save_csv(st, src, RecentCsv(part), fl[2])
               h == append_to_history(w.store, src, part.old_rows, fl[3], fl[4])
           IN  [store |-> h.store,
                archived |-> Len(part.old_rows),
                remaining |-> Len(part.recent_rows),
                calls |-> <<Get(src), PutCall(src)>> \o h.calls]

\* cleanup_old_conversions (lines 270-340).  The results of both saves are
\* ignored by the code; the counts returned are those of the partition.
cleanup_old_conversions(st, clock, src, hours, fl) ==
  LET csv_content == get_csv(st, src, fl[1])
  IN  IF ~Truthy(csv_content)
      THEN [store |-> st, archived |-> 0, remaining |-> 0, calls |-> <<Get(src)>>]
      ELSE LET part == Partition(csv_content.text, CutoffTime(clock, hours))
               w == save_csv(st, src, RecentCsv(part), fl[2])
               h == IF part.old_rows # <<>>
                    THEN append_to_history(w.store, src, part.old_rows, fl[3], fl[4])
                    ELSE [store |-> w.store, ok |-> TRUE, calls |-> <<>>]
           IN  [store |-> h.store,
                archived |-> Len(part.old_rows),
                remaining |-> Len(part.recent_rows),
                calls |-> <<Get(src), PutCall(src)>> \o h.calls]

\* key.replace('.csv', ''): every occurrence is removed.
SrcOfKey(key) == SelectSeq(key, LAMBDA tok : tok # CSV_EXT)

\* Code point of a token's first character, for sorted().
TokenRank(tok) ==
  CASE tok = CSV_EXT -> 46
    [] tok = "1" -> 49
    [] tok = "2" -> 50
    [] tok = HISTORY_SUFFIX -> 95
    [] OTHER -> 0

RECURSIVE StrLess(_, _)
\* a < b for Python strings.
StrLess(a, b) ==
  IF b = <<>> THEN FALSE
  ELSE IF a = <<>> THEN TRUE
  ELSE IF Head(a) = Head(b) THEN StrLess(Tail(a), Tail(b))
  ELSE TokenRank(Head(a)) < TokenRank(Head(b))

RECURSIVE SortedSources(_)
SortedSources(keys) ==
  IF keys = {} THEN <<>>
  ELSE LET k == CHOOSE x \in keys :
                  \A y \in keys : ~StrLess(SrcOfKey(y), SrcOfKey(x))
       IN  <<SrcOfKey(k)>> \o SortedSources(keys \ {k})

\* get_all_sources (lines 214-235): [] when the listing fails.
get_all_sources(st, fail) ==
  IF fail THEN <<>>
  ELSE SortedSources({k \in DOMAIN st : k # <<>> /\ k[Len(k)] = CSV_EXT})

\* src.endswith('_history')
IsHistorySrc(src) == src # <<>> /\ src[Len(src)] = HISTORY_SUFFIX

RECURSIVE CleanupEach(_, _, _, _, _, _, _)
\* The loop of cleanup_all_sources (lines 380-384).  flOf gives, for each
\* identifier, the failures the store injects while that one is archived.
CleanupEach(st, clock, hours, sources, results, calls, flOf) ==
  IF sources = <<>> THEN [store |-> st, results |-> results, calls |-> calls]
  ELSE LET src == Head(sources)
       IN  IF IsHistorySrc(src)
           THEN CleanupEach(st, clock, hours, Tail(sources), results, calls, flOf)
           ELSE LET r == cleanup_old_conversions(st, clock, src, hours, flOf[src])
                    res == [s \in DOMAIN results \cup {src} |->
                              IF s = src
                              THEN [archived |-> r.archived, remaining |-> r.remaining]
                              ELSE results[s]]
                IN  CleanupEach(r.store, clock, hours, Tail(sources), res,
                                calls \o r.calls, flOf)

\* cleanup_all_sources (lines 366-386).
cleanup_all_sources(st, clock, hours, flOf) ==
  CleanupEach(st, clock, hours, get_all_sources(st, FALSE), <<>>, <<>>, flOf)

-----------------------------------------------------------------------------
(* State *)

\* Account identifiers made of digits, and every identifier a caller of
\* create_empty_source or cleanup_old_conversions may pass.
Accounts == {<<"1">>, <<"2">>}
AnySrcs == Accounts \cup {HistorySrc(<<"1">>)}

Procs == {"A", "B"}

\* What the last handler did: its name and arguments, what it returned
\* and the failures injected.
Ret(op, src, hours, row, ok, archived, remaining, results, fl, calls) ==
  [op |-> op, src |-> src, hours |-> hours, row |-> row, ok |-> ok,
   archived |-> archived, remaining |-> remaining, results |-> results,
   fl |-> fl, calls |-> calls]

NoRet(op) == Ret(op, <<>>, 0, <<>>, TRUE, 0, 0, <<>>, NoFail, <<>>)

\* The locals of a handler that is between two store calls: its arguments,
\* the row or partition it computed, what its reads returned; and, for the
\* record, which archival passes were scanning when it read (within) and
\* the rows other workers saved while it was between its read and its
\* write (seen).
NoLoc == [op |-> "none", src |-> <<>>, hours |-> 0, row |-> <<>>, read |-> None,
          cutoff |-> 0,
          part |-> [header_line |-> None, recent_rows |-> <<>>, old_rows |-> <<>>],
          hist |-> None, ok |-> FALSE, within |-> {}, seen |-> <<>>]

Init ==
  /\ store = <<>>
  /\ now = 0
  /\ last = NoRet("init")
  /\ appended = [s \in AnySrcs |-> <<>>]
  /\ pc = [p \in Procs |-> "idle"]
  /\ loc = [p \in Procs |-> NoLoc]
  /\ failed_attempts = <<>>
  /\ blocked_ips = <<>>
  /\ authClock = 0

-----------------------------------------------------------------------------
(* Bounds and inputs *)

\* Appends stop once the store holds this many record lines, or once this
\* many rows were appended to the account; archive passes stop once the
\* store holds more (a pass whose write-back fails copies rows to history).
MaxRows == 3

\* Click ids: an ordinary one, and one that carries a line break and a
\* comma (the query parameter is any non-empty string).
Gclids == {<<"g1">>}
BrokenGclid == <<"g2", NL, "g3", COMMA, "g4">>

\* Timestamps a caller sends: one that parses, one that does not.
ConversionTimes == {IsoZ(1), "not-a-date"}

HoursChoices == {0, DefaultHours}

\* Lines of a text that are neither blank nor the fixed header.
RecordLines(text) ==
  SelectSeq(Split(text, NL), LAMBDA line : ~IsBlank(line) /\ line # HeaderLine)

RECURSIVE SumRows(_, _)
SumRows(st, keys) ==
  IF keys = {} THEN 0
  ELSE LET k == CHOOSE x \in keys : TRUE
       IN  Len(RecordLines(st[k])) + SumRows(st, keys \ {k})

\* The number of record lines in the whole store.
RowLines(st) == SumRows(st, DOMAIN st)

-----------------------------------------------------------------------------
(* Actions: one per handler, run from its first store call to its return *)

Idle == \A p \in Procs : pc[p] = "idle"

\* The row add_conversion builds for its arguments at the current clock.
RowOf(gclid, conversion_time, conversion_value, order_id) ==
  NewRow(gclid, FormatConversionTime(conversion_time, now), conversion_value, order_id)

AddConversion(src, gclid, conversion_time, conversion_value, order_id, fl) ==
  /\ Idle
  /\ RowLines(store) < MaxRows
  /\ Len(appended[src]) < MaxRows
  /\ LET r == add_conversion(store, now, src, gclid, conversion_time,
                             conversion_value, order_id, fl)
         row == RowOf(gclid, conversion_time, conversion_value, order_id)
     IN  /\ store' = r.store
         /\ last' = Ret("add", src, 0, row, r.ok, 0, 0, <<>>, fl, r.calls)
         /\ appended' = IF r.ok THEN [appended EXCEPT ![src] = Append(@, row)]
                        ELSE appended
  /\ UNCHANGED <<now, pc, loc>>
  /\ UNCHANGED authVars

CreateEmptySource(src, fl) ==
  /\ Idle
  /\ LET r == create_empty_source(store, src, fl)
     IN  /\ store' = r.store
         /\ last' = Ret("create", src, 0, <<>>, r.ok, 0, 0, <<>>, fl, r.calls)
  /\ UNCHANGED <<now, appended, pc, loc>>
  /\ UNCHANGED authVars

\* For the record: what the handler that returned just before this one
\* reported, when it was an archive pass with the same arguments (and so,
\* the clock not having moved, the same cutoff).
PassBefore(src, hours) ==
  IF last.op = "cleanup" /\ last.src = src /\ last.hours = hours
  THEN [first |-> [archived |-> last.archived, remaining |-> last.remaining]]
  ELSE <<>>

\* manual_cleanup (main.py lines 323-352) calling cleanup_old_conversions.
CleanupOldConversions(src, hours, fl) ==
  /\ Idle
  /\ RowLines(store) <= MaxRows
  /\ LET r == cleanup_old_conversions(store, now, src, hours, fl)
     IN  /\ store' = r.store
         /\ last' = Ret("cleanup", src, hours, <<>>, TRUE, r.archived,
                        r.remaining, PassBefore(src, hours), fl, r.calls)
  /\ UNCHANGED <<now, appended, pc, loc>>
  /\ UNCHANGED authVars

\* The failures fl injected while src is archived, none for the others.
FailOnly(src, fl) == [s \in AnySrcs |-> IF s = src THEN fl ELSE NoFail]

\* run_cleanup (main.py lines 59-71) calling cleanup_all_sources(hours=25),
\* with the failures fl injected while account src is archived.
CleanupAllSources(src, fl) ==
  /\ Idle
  /\ RowLines(store) <= MaxRows
  /\ LET r == cleanup_all_sources(store, now, DefaultHours, FailOnly(src, fl))
     IN  /\ store' = r.store
         /\ last' = Ret("cleanup_all", src, DefaultHours, <<>>, TRUE, 0, 0,
                        r.results, fl, r.calls)
  /\ UNCHANGED <<now, appended, pc, loc>>
  /\ UNCHANGED authVars

\* Time passes: the clock moves to a later instant.
Advance(t) ==
  /\ Idle
  /\ t > now
  /\ now' = t
  /\ last' = NoRet("advance")
  /\ UNCHANGED <<store, appended, pc, loc>>
  /\ UNCHANGED authVars

-----------------------------------------------------------------------------
(* Spec: every handler, one at a time, with a store that never fails *)

MainSrc == <<"1">>

Next ==
  \/ \E g \in Gclids \cup {BrokenGclid}, t \in ConversionTimes :
       AddConversion(MainSrc, g, t, <<>>, None, NoFail)
  \/ \E s \in {MainSrc, HistorySrc(MainSrc)} : CreateEmptySource(s, NoFail)
  \/ \E s \in {MainSrc, HistorySrc(MainSrc)}, h \in HoursChoices :
       CleanupOldConversions(s, h, NoFail)
  \/ CleanupAllSources(MainSrc, NoFail)
  \/ \E t \in ClockValues : Advance(t)

Spec == Init /\ [][Next]_vars

-----------------------------------------------------------------------------
(* SpecAppend: a single writer only appends, to a log that starts absent,  *)
(* with every kind of click id, value and order id.                        *)

\* Click ids that begin like a line the scanners treat specially.
ParamsGclid == <<PARAMS, "g5">>
AppendGclids == Gclids \cup {BrokenGclid, ParamsGclid}

\* Optional[float] and Optional[str] arguments.
Values == {<<>>, <<5>>}
OrderIds == {None, Some(<<"o1">>)}

NextAppend ==
  \/ \E g \in AppendGclids, t \in ConversionTimes, v \in Values, o \in OrderIds :
       AddConversion(MainSrc, g, t, v, o, NoFail)
  \/ \E t \in ClockValues : Advance(t)

SpecAppend == Init /\ [][NextAppend]_vars

\* The data lines of a stored log as the handlers read them (the list whose
\* length get_conversion_count reports); none for an absent log.
DataLines(st, src) ==
  IF Truthy(get_csv(st, src, FALSE))
  THEN SelectSeq(Split(Strip(st[Key(src)]), NL), IsDataLine)
  ELSE <<>>

\* C1: after N successful sequential appends to a log that started absent,
\* get_conversion_count reports N recent records and the data lines of the
\* log are the N appended rows in append order, whatever the click id.
C1_AppendMonotonic ==
  /\ get_conversion_count(store, MainSrc).recent = Len(appended[MainSrc])
  /\ DataLines(store, MainSrc) = appended[MainSrc]

-----------------------------------------------------------------------------
(* Archival, stated on the step a cleanup_old_conversions call takes.  A   *)
(* step that ends with last'.op = "cleanup" is such a call with the        *)
(* arguments last'.src and last'.hours; the unprimed store is the store it *)
(* started from.                                                           *)

\* The timestamp of a record line: its third comma-separated field.
OccurredAt(line) ==
  LET parts == Split(line, COMMA)
  IN  IF Len(parts) >= 3 THEN strptime(parts[3]) ELSE [ok |-> FALSE, wall |-> 0]

\* The line has fewer than three fields or a third field that is no timestamp.
Malformed(line) == ~OccurredAt(line).ok

\* The record is strictly older than the cutoff.
Older(line, cutoff) ==
  OccurredAt(line).ok /\ localize(OccurredAt(line).wall) < cutoff

\* The record's timestamp is exactly the cutoff.
AtCutoff(line, cutoff) ==
  OccurredAt(line).ok /\ localize(OccurredAt(line).wall) = cutoff

InSeq(x, seq) == \E i \in 1..Len(seq) : seq[i] = x

IsPrefix(a, b) == Len(a) <= Len(b) /\ SubSeq(b, 1, Len(a)) = a

\* The step is a cleanup pass over a log that exists.
CleanupRan == last'.op = "cleanup" /\ Truthy(get_csv(store, last'.src, FALSE))

\* C4: one archive pass leaves the main log as the header followed by the
\* records not older than the cutoff (unparseable ones included) in their
\* original order, leaves the history log as its previous records followed
\* by the records older than the cutoff in their original order, and
\* returns the sizes of the two groups.
C4_ArchivalPartition ==
  [][CleanupRan =>
       LET src == last'.src
           cutoff == CutoffTime(now, last'.hours)
           recs == DataLines(store, src)
           kept == SelectSeq(recs, LAMBDA l : ~Older(l, cutoff))
           old == SelectSeq(recs, LAMBDA l : Older(l, cutoff))
       IN  /\ Split(store'[Key(src)], NL) = <<HeaderLine>> \o kept
           /\ DataLines(store', HistorySrc(src)) = DataLines(store, HistorySrc(src)) \o old
           /\ last'.archived = Len(old)
           /\ last'.remaining = Len(kept)]_vars

\* C4 witness: a pass kept some records and archived others behind records
\* that history already held.
C4_Witness ==
  /\ last.op = "cleanup"
  /\ last.archived >= 1
  /\ last.remaining >= 1
  /\ Len(DataLines(store, HistorySrc(last.src))) > last.archived

\* C5: a record whose timestamp equals the cutoff stays in the main log and
\* is not added to history; every record the pass adds to history is
\* strictly older than the cutoff.
C5_TieBreak ==
  [][CleanupRan =>
       LET src == last'.src
           cutoff == CutoffTime(now, last'.hours)
           recs == DataLines(store, src)
           ties == SelectSeq(recs, LAMBDA l : AtCutoff(l, cutoff))
       IN  /\ SelectSeq(DataLines(store', src), LAMBDA l : AtCutoff(l, cutoff)) = ties
           /\ SelectSeq(DataLines(store', HistorySrc(src)), LAMBDA l : AtCutoff(l, cutoff))
                = SelectSeq(DataLines(store, HistorySrc(src)), LAMBDA l : AtCutoff(l, cutoff))
           /\ LET before == DataLines(store, HistorySrc(src))
                  after == DataLines(store', HistorySrc(src))
              IN  /\ IsPrefix(before, after)
                  /\ \A i \in (Len(before) + 1)..Len(after) : Older(after[i], cutoff)]_vars

\* C5 witness: after a pass that archived something, the main log holds a
\* record whose timestamp is exactly the cutoff of that pass.
C5_Witness ==
  /\ last.op = "cleanup"
  /\ last.archived >= 1
  /\ \E i \in 1..Len(DataLines(store, last.src)) :
       AtCutoff(DataLines(store, last.src)[i], CutoffTime(now, last.hours))

\* C6: a data line with fewer than three fields, or with a third field that
\* is no timestamp, is in the main log after the pass, in its position
\* among the kept rows, and is not written to history.
C6_MalformedKept ==
  [][CleanupRan =>
       LET src == last'.src
           recs == DataLines(store, src)
           after == DataLines(store', src)
       IN  /\ SelectSeq(after, Malformed) = SelectSeq(recs, Malformed)
           /\ after = SelectSeq(recs, LAMBDA l : Malformed(l) \/ InSeq(l, after))
           /\ SelectSeq(DataLines(store', HistorySrc(src)), Malformed)
                = SelectSeq(DataLines(store, HistorySrc(src)), Malformed)]_vars

\* C6 witness: a pass archived a record and left both kinds of malformed
\* line in the main log: one with fewer than three fields, one whose third
\* field is no timestamp.
C6_Witness ==
  /\ last.op = "cleanup"
  /\ last.archived >= 1
  /\ \E i, j \in 1..Len(DataLines(store, last.src)) :
       /\ Len(Split(DataLines(store, last.src)[i], COMMA)) < 3
       /\ Len(Split(DataLines(store, last.src)[j], COMMA)) >= 3
       /\ Malformed(DataLines(store, last.src)[j])

\* C7: create_empty_source on an absent account writes the header-only log;
\* on an account whose log exists it makes no write, returns success and
\* leaves the store as it was.
C7_CreateIdempotent ==
  [][last'.op = "create" =>
       LET src == last'.src
       IN  IF Key(src) \in DOMAIN store
           THEN /\ store' = store
                /\ last'.ok
                /\ last'.calls = <<Get(src)>>
           ELSE /\ store' = Put(store, src, Header)
                /\ last'.ok
                /\ DataLines(store', src) = <<>>]_vars

\* C7 witness: create_empty_source was called on a log that holds records.
C7_Witness ==
  /\ last.op = "create"
  /\ last.ok
  /\ Len(DataLines(store, last.src)) >= 1

\* C10: the records stored under {accountId}_history before any step are a
\* prefix of the records stored there after it.
C10_HistoryAppendOnly ==
  [][IsPrefix(DataLines(store, HistorySrc(MainSrc)),
              DataLines(store', HistorySrc(MainSrc)))]_vars

-----------------------------------------------------------------------------
(* SpecFail: one handler at a time, with a store whose calls may fail *)

NextFail ==
  \/ \E g \in Gclids, fl \in TwoCallFail :
       AddConversion(MainSrc, g, IsoZ(1), <<>>, None, fl)
  \/ \E fl \in TwoCallFail : CreateEmptySource(MainSrc, fl)
  \/ \E fl \in AnyFail : CleanupOldConversions(MainSrc, DefaultHours, fl)
  \/ \E t \in ClockValues : Advance(t)

SpecFail == Init /\ [][NextFail]_vars

\* C8: add_conversion returns success only if the log afterwards holds the
\* records it held before, in order, followed by the new record; when it
\* returns failure the store is unchanged.
C8_AppendErrorSemantics ==
  [][last'.op = "add" =>
       /\ last'.ok =>
            DataLines(store', last'.src) = DataLines(store, last'.src) \o <<last'.row>>
       /\ ~last'.ok => store' = store]_vars

\* C9: when the read of create_empty_source or add_conversion fails on an
\* account whose log exists, the log is not replaced by a freshly
\* synthesized one: the records it held are still there afterwards.
C9_ReadFailureNotAbsent ==
  [][(last'.op \in {"add", "create"} /\ last'.fl[1] /\ Key(last'.src) \in DOMAIN store) =>
       IsPrefix(DataLines(store, last'.src), DataLines(store', last'.src))]_vars

-----------------------------------------------------------------------------
(* SpecRace: two workers on a store that never fails, each handler taken   *)
(* one store call at a time.  The scheduler's cleanup runs in its own      *)
(* thread (BackgroundScheduler, main.py line 34) and several server        *)
(* processes share one bucket, so store calls of different handlers        *)
(* interleave freely.                                                      *)

\* Workers stop starting appends once this many were started on the account.
MaxRaceRows == 2

\* Each worker sends its own click id, so that the rows of the two workers
\* can be told apart.
GclidOf(p) == IF p = "A" THEN <<"g1">> ELSE <<"g2">>

\* What is kept of a handler's locals once it has returned.
Returned(l) ==
  [NoLoc EXCEPT !.op = l.op, !.src = l.src, !.hours = l.hours, !.row = l.row,
                !.ok = TRUE, !.seen = l.seen]

\* The data lines of a text held in a handler's local.
ReadLines(o) ==
  IF Truthy(o) THEN SelectSeq(Split(Strip(o.text), NL), IsDataLine) ELSE <<>>

\* Appends that have read and not yet written.
Appending(src) == {p \in Procs : pc[p] = "add_save" /\ loc[p].src = src}

\* Archival passes between their read of the main log and its write-back.
Scanning(src) == {p \in Procs : pc[p] = "cl_save_main" /\ loc[p].src = src}

\* add_conversion from its entry to the return of get_csv (lines 134-148).
AddRead(p, src, conversion_time) ==
  /\ pc[p] = "idle"
  /\ Len(appended[src]) + Cardinality(Appending(src)) < MaxRaceRows
  /\ loc' = [loc EXCEPT ![p] =
               [NoLoc EXCEPT !.op = "add", !.src = src,
                             !.row = RowOf(GclidOf(p), conversion_time, <<>>, None),
                             !.read = get_csv(store, src, FALSE),
                             !.within = Scanning(src)]]
  /\ pc' = [pc EXCEPT ![p] = "add_save"]
  /\ UNCHANGED <<store, now, last, appended>>
  /\ UNCHANGED authVars

\* The content add_conversion saves, were it to read the log again at the
\* moment it writes.
AddWriteFresh(st, l) == AddContent(get_csv(st, l.src, FALSE), l.row)

\* The content add_conversion saves (lines 150-162): built from the text
\* its get_csv returned.
AddWrite(st, l) == AddContent(l.read, l.row)

\* add_conversion from there to its return (lines 150-165).
AddSave(p) ==
  /\ pc[p] = "add_save"
  /\ LET l == loc[p]
         w == save_csv(store, l.src, AddWrite(store, l), FALSE)
     IN  /\ store' = w.store
         /\ last' = Ret("add", l.src, 0, l.row, w.ok, 0, 0, <<>>, NoFail,
                        <<Get(l.src), PutCall(l.src)>>)
         /\ appended' = [appended EXCEPT ![l.src] = Append(@, l.row)]
         /\ loc' = [q \in Procs |->
                      IF q = p THEN [Returned(l) EXCEPT !.ok = w.ok]
                      ELSE IF q \in Appending(l.src)
                             \/ (q \in Scanning(l.src) /\ q \in l.within)
                           THEN [loc[q] EXCEPT !.seen = Append(@, l.row)]
                           ELSE loc[q]]
  /\ pc' = [pc EXCEPT ![p] = "idle"]
  /\ UNCHANGED now
  /\ UNCHANGED authVars

\* cleanup_old_conversions from its entry to the end of its scan (lines
\* 281-327), or to its return when there is nothing to scan (line 283).
CleanupRead(p, src, hours) ==
  /\ pc[p] = "idle"
  /\ LET csv_content == get_csv(store, src, FALSE)
     IN  IF ~Truthy(csv_content)
         THEN /\ loc' = [loc EXCEPT ![p] =
                           [NoLoc EXCEPT !.op = "cleanup", !.src = src,
                                         !.hours = hours, !.ok = TRUE]]
              /\ last' = Ret("cleanup", src, hours, <<>>, TRUE, 0, 0, <<>>, NoFail,
                             <<Get(src)>>)
              /\ UNCHANGED pc
         ELSE /\ loc' = [q \in Procs |->
                           IF q = p
                           THEN [NoLoc EXCEPT
                                   !.op = "cleanup", !.src = src, !.hours = hours,
                                   !.read = csv_content,
                                   !.cutoff = CutoffTime(now, hours),
                                   !.part = Partition(csv_content.text,
                                                      CutoffTime(now, hours))]
                           ELSE [loc[q] EXCEPT !.within = @ \ {p}]]
              /\ pc' = [pc EXCEPT ![p] = "cl_save_main"]
              /\ UNCHANGED last
  /\ UNCHANGED <<store, now, appended>>
  /\ UNCHANGED authVars

\* The content cleanup writes back, were it to read and scan the main log
\* again at the moment it writes.
CleanupWriteFresh(st, l) ==
  LET again == get_csv(st, l.src, FALSE)
  IN  IF Truthy(again) THEN RecentCsv(Partition(again.text, l.cutoff))
      ELSE RecentCsv(l.part)

\* The content cleanup writes back to the main log (lines 324-327): built
\* from the scan of the text its get_csv returned.
CleanupWrite(st, l) == RecentCsv(l.part)

\* cleanup_old_conversions: the write-back of line 329, and the return of
\* lines 337-340 when no row was old.
CleanupSaveMain(p) ==
  /\ pc[p] = "cl_save_main"
  /\ LET l == loc[p]
         w == save_csv(store, l.src, CleanupWrite(store, l), FALSE)
     IN  /\ store' = w.store
         /\ IF l.part.old_rows # <<>>
            THEN /\ pc' = [pc EXCEPT ![p] = "cl_hist_read"]
                 /\ UNCHANGED <<last, loc>>
            ELSE /\ pc' = [pc EXCEPT ![p] = "idle"]
                 /\ loc' = [loc EXCEPT ![p] = Returned(l)]
                 /\ last' = Ret("cleanup", l.src, l.hours, <<>>, TRUE, 0,
                                Len(l.part.recent_rows), <<>>, NoFail,
                                <<Get(l.src), PutCall(l.src)>>)
  /\ UNCHANGED <<now, appended>>
  /\ UNCHANGED authVars

\* _append_to_history: its get_csv (lines 353-354).
CleanupHistRead(p) ==
  /\ pc[p] = "cl_hist_read"
  /\ loc' = [loc EXCEPT ![p].hist = get_csv(store, HistorySrc(loc[p].src), FALSE)]
  /\ pc' = [pc EXCEPT ![p] = "cl_hist_save"]
  /\ UNCHANGED <<store, now, last, appended>>
  /\ UNCHANGED authVars

\* _append_to_history: its save_csv (lines 356-364), then the return of
\* cleanup_old_conversions (lines 337-340).
CleanupHistSave(p) ==
  /\ pc[p] = "cl_hist_save"
  /\ LET l == loc[p]
         history_key == HistorySrc(l.src)
         w == save_csv(store, history_key, UpdatedHistory(l.hist, l.part.old_rows), FALSE)
     IN  /\ store' = w.store
         /\ loc' = [loc EXCEPT ![p] = Returned(l)]
         /\ last' = Ret("cleanup", l.src, l.hours, <<>>, TRUE, Len(l.part.old_rows),
                        Len(l.part.recent_rows), <<>>, NoFail,
                        <<Get(l.src), PutCall(l.src), Get(history_key),
                          PutCall(history_key)>>)
  /\ pc' = [pc EXCEPT ![p] = "idle"]
  /\ UNCHANGED <<now, appended>>
  /\ UNCHANGED authVars

NextRace ==
  \/ \E p \in Procs, t \in ConversionTimes : AddRead(p, MainSrc, t)
  \/ \E p \in Procs : AddSave(p)
  \/ \E p \in Procs : CleanupRead(p, MainSrc, DefaultHours)
  \/ \E p \in Procs : CleanupSaveMain(p)
  \/ \E p \in Procs : CleanupHistRead(p)
  \/ \E p \in Procs : CleanupHistSave(p)
  \/ \E t \in ClockValues : Advance(t)

SpecRace == Init /\ [][NextRace]_vars

\* C2: when an append writes after another append's save landed between its
\* own read and its write, it returns success and the log afterwards is
\* what it read plus its own row: the other append's record, reported as
\* saved, is not in the log.
C2_LostUpdate ==
  [][\A p \in Procs :
       (pc[p] = "add_save" /\ pc'[p] = "idle" /\ loc[p].seen # <<>>) =>
         LET l == loc[p]
         IN  /\ loc'[p].ok
             /\ DataLines(store', l.src) = ReadLines(l.read) \o <<l.row>>
             /\ \A i \in 1..Len(l.seen) :
                  (l.seen[i] # l.row /\ ~InSeq(l.seen[i], ReadLines(l.read)))
                    => ~InSeq(l.seen[i], DataLines(store', l.src))]_vars

\* C2 witness: both workers appended different records to the same account
\* and returned success, A's save landed between B's read and B's write,
\* and the log holds B's record only.
C2_Witness ==
  /\ Idle
  /\ loc["A"].op = "add" /\ loc["B"].op = "add"
  /\ loc["A"].ok /\ loc["B"].ok
  /\ loc["A"].src = loc["B"].src
  /\ loc["A"].row # loc["B"].row
  /\ loc["B"].seen = <<loc["A"].row>>
  /\ Len(appended[loc["B"].src]) = 2
  /\ DataLines(store, loc["B"].src) = <<loc["B"].row>>

\* C3: a record appended (read and write) between an archival pass's read
\* of the main log and its write-back is not in the main log after the
\* write-back, and the pass's history append does not put it in history.
C3_ArchiveAppendRace ==
  [][\A p \in Procs :
       LET l == loc[p]
           Fresh(r) == ~InSeq(r, ReadLines(l.read))
       IN  /\ (pc[p] = "cl_save_main" /\ pc'[p] # "cl_save_main") =>
                 /\ \A i \in 1..Len(l.seen) :
                      Fresh(l.seen[i]) => ~InSeq(l.seen[i], DataLines(store', l.src))
                 /\ DataLines(store', HistorySrc(l.src))
                      = DataLines(store, HistorySrc(l.src))
           /\ (pc[p] = "cl_hist_save" /\ pc'[p] = "idle") =>
                 \A i \in 1..Len(l.seen) :
                   (Fresh(l.seen[i])
                      /\ ~InSeq(l.seen[i], DataLines(store, HistorySrc(l.src))))
                     => ~InSeq(l.seen[i], DataLines(store', HistorySrc(l.src)))]_vars

\* C3 witness: worker A's archival pass has returned after moving at least
\* one row to history; worker B's append read and wrote inside A's window
\* and returned success; B's record is in neither log.
C3_Witness ==
  /\ Idle
  /\ loc["A"].op = "cleanup" /\ loc["A"].ok
  /\ last.op = "cleanup" /\ last.archived > 0
  /\ loc["B"].op = "add" /\ loc["B"].ok
  /\ loc["B"].src = loc["A"].src
  /\ loc["A"].seen = <<loc["B"].row>>
  /\ ~InSeq(loc["B"].row, DataLines(store, loc["A"].src))
  /\ ~InSeq(loc["B"].row, DataLines(store, HistorySrc(loc["A"].src)))

-----------------------------------------------------------------------------
(* History creation and the shape of stored logs *)

\* The handler's store calls name the key.
Touches(calls, key) == InSeq(<<"get", key>>, calls) \/ InSeq(<<"put", key>>, calls)

\* The key holds the same content, or is absent, in both stores.
SameAt(st1, st2, key) ==
  /\ key \in DOMAIN st1 <=> key \in DOMAIN st2
  /\ key \in DOMAIN st1 => st1[key] = st2[key]

\* C11: an archive pass that archives nothing makes no read and no write of
\* the account's history key and leaves it as it was; a pass that archives
\* at least one record while the history log is absent creates it as the
\* header line followed by the archived records.
C11_LazyHistory ==
  [][/\ last'.op = "cleanup" =>
          LET src == last'.src
              history_key == Key(HistorySrc(src))
              old == SelectSeq(DataLines(store, src),
                               LAMBDA l : Older(l, CutoffTime(now, last'.hours)))
          IN  /\ last'.archived = 0 =>
                   /\ ~Touches(last'.calls, history_key)
                   /\ SameAt(store, store', history_key)
              /\ (last'.archived > 0 /\ history_key \notin DOMAIN store) =>
                   /\ history_key \in DOMAIN store'
                   /\ Head(Split(store'[history_key], NL)) = HeaderLine
                   /\ RecordLines(store'[history_key]) = old
                   /\ Touches(last'.calls, history_key)
     /\ last'.op = "cleanup_all" =>
          \A src \in DOMAIN last'.results :
            last'.results[src].archived = 0 =>
              /\ ~Touches(last'.calls, Key(HistorySrc(src)))
              /\ SameAt(store, store', Key(HistorySrc(src)))]_vars

\* C11 witness: a pass archived records and the history log holds the
\* header line followed by exactly the records of that pass.
C11_Witness ==
  /\ last.op = "cleanup"
  /\ last.archived >= 1
  /\ Key(HistorySrc(last.src)) \in DOMAIN store
  /\ Head(Split(store[Key(HistorySrc(last.src))], NL)) = HeaderLine
  /\ Len(RecordLines(store[Key(HistorySrc(last.src))])) = last.archived

-----------------------------------------------------------------------------
(* SpecLines: one handler at a time on a store that never fails, with      *)
(* click ids that begin like the lines the scanners treat specially        *)

\* A click id that begins like the header line.
HdrGclid == <<HDR, "g6">>
LineGclids == Gclids \cup {ParamsGclid, HdrGclid}

NextLines ==
  \/ \E g \in LineGclids, t \in ConversionTimes :
       AddConversion(MainSrc, g, t, <<>>, None, NoFail)
  \/ CreateEmptySource(MainSrc, NoFail)
  \/ \E h \in HoursChoices : CleanupOldConversions(MainSrc, h, NoFail)
  \/ CleanupAllSources(MainSrc, NoFail)
  \/ \E t \in ClockValues : Advance(t)

SpecLines == Init /\ [][NextLines]_vars

\* The number of lines of a text that are the fixed header line.
HeaderCount(text) == Len(SelectSeq(Split(text, NL), LAMBDA line : line = HeaderLine))

\* C12: every log in the store has the fixed header line as its first line
\* and holds that line exactly once; in particular a main log whose records
\* were all archived is the header line alone.
C12_HeaderInvariant ==
  \A key \in DOMAIN store :
    /\ Head(Split(store[key], NL)) = HeaderLine
    /\ HeaderCount(store[key]) = 1

\* The elements of a sequence.
Range(seq) == {seq[i] : i \in 1..Len(seq)}

\* C13: get_all_sources returns the identifiers of the stored keys that are
\* main logs, each with the storage extension stripped, and none of the
\* identifiers it returns ends in the history suffix.
C13_ListAccounts ==
  LET srcs == get_all_sources(store, FALSE)
  IN  /\ \A i \in 1..Len(srcs) : ~IsHistorySrc(srcs[i])
      /\ Range(srcs) = {SrcOfKey(k) : k \in {x \in DOMAIN store : ~IsHistorySrc(SrcOfKey(x))}}

-----------------------------------------------------------------------------
(* SpecBatch: two accounts, appends that succeed, and the scheduled batch  *)
(* pass run against a store that may fail while one account is archived    *)

\* No failure, or the failure of one of the pass's store calls.
OneFail == {f \in AnyFail : Cardinality({i \in 1..4 : f[i]}) <= 1}

NextBatch ==
  \/ \E s \in Accounts, g \in Gclids :
       AddConversion(s, g, "not-a-date", <<>>, None, NoFail)
  \/ \E s \in Accounts, fl \in OneFail : CleanupAllSources(s, fl)
  \/ \E t \in ClockValues : Advance(t)

SpecBatch == Init /\ [][NextBatch]_vars

\* A store call of the pass over src fails: its first read, its write-back,
\* or, when it has rows to archive, the read or the write of history.
PassFails(st, clock, src, hours, fl) ==
  \/ fl[1]
  \/ fl[2]
  \/ /\ fl[3] \/ fl[4]
     /\ Truthy(get_csv(st, src, FALSE))
     /\ Partition(st[Key(src)], CutoffTime(clock, hours)).old_rows # <<>>

\* C14: the batch pass reports on exactly the accounts that have a main
\* log and on no history identifier; an account whose pass met a store
\* failure is reported with an error marker instead of counts; every other
\* account is archived and reported as by a pass of its own.
C14_BatchIsolation ==
  [][last'.op = "cleanup_all" =>
       LET mains == {s \in AnySrcs : Key(s) \in DOMAIN store /\ ~IsHistorySrc(s)}
           results == last'.results
       IN  /\ DOMAIN results = mains
           /\ \A s \in mains :
                IF s = last'.src /\ PassFails(store, now, s, last'.hours, last'.fl)
                THEN "error" \in DOMAIN results[s]
                ELSE LET r == cleanup_old_conversions(store, now, s, last'.hours, NoFail)
                     IN  /\ results[s] = [archived |-> r.archived,
                                          remaining |-> r.remaining]
                         /\ SameAt(store', r.store, Key(s))
                         /\ SameAt(store', r.store, Key(HistorySrc(s)))]_vars

-----------------------------------------------------------------------------
(* The postback endpoint (main.py receive_postback, models.py              *)
(* PostbackRequest).  A request q carries gclid and ctid (strings),         *)
(* commission (Optional[float]), dateTime and utmSource (Optional[str]);    *)
(* the other query parameters are validated nowhere and used nowhere.       *)

Digits == {"1", "2"}
HYPHEN == "-"

\* v.replace('-', '') and cleaned.isdigit() of validate_src.
Cleaned(v) == SelectSeq(v, LAMBDA tok : tok # HYPHEN)
IsDigit(v) == v # <<>> /\ \A i \in 1..Len(v) : v[i] \in Digits

\* str.lower() on the tokens used for utmSource.
Lower(v) == [i \in 1..Len(v) |-> IF v[i] = "Google" THEN "google" ELSE v[i]]

\* The keyword arguments receive_postback passes to PostbackRequest
\* (main.py lines 221-235).
PostbackKwargs(q) ==
  [gclid |-> q.gclid, ctid |-> q.ctid, commission |-> q.commission,
   dateTime |-> q.dateTime, utmSource |-> q.utmSource]

\* The fields PostbackRequest declares (models.py lines 13-31).
PostbackFields == {"gclid", "src", "commission", "dateTime", "utmSource"}

\* PostbackRequest(**kw) (models.py lines 9-53): the fields that fail
\* validation and, when none does, the validated object.  Keywords that
\* are not declared fields are ignored; gclid and src are required.
PostbackRequest(kw) ==
  LET Has(f) == f \in DOMAIN kw
      errors ==
        {f \in {"gclid", "src"} : ~Has(f)}
        \cup (IF Has("gclid") /\ Len(kw["gclid"]) < 1 THEN {"gclid"} ELSE {})
        \cup (IF Has("src") /\ (Len(kw["src"]) < 1 \/ ~IsDigit(Cleaned(kw["src"])))
              THEN {"src"} ELSE {})
        \cup (IF Has("commission") /\ kw["commission"] # <<>> /\ kw["commission"][1] < 0
              THEN {"commission"} ELSE {})
        \cup (IF Has("dateTime") /\ ~kw["dateTime"].none
                 /\ ~fromisoformat(kw["dateTime"].text[1]).ok
              THEN {"dateTime"} ELSE {})
      value == [f \in PostbackFields |->
                  IF f = "src" THEN (IF Has(f) THEN Cleaned(kw[f]) ELSE <<>>)
                  ELSE IF Has(f) THEN kw[f]
                  ELSE IF f = "commission" THEN <<>> ELSE None]
  IN  [errors |-> errors, value |-> value]

\* The parameters of CSVHandler.add_conversion (csv_handler.py lines 118-120).
AddConversionParams == {"src", "gclid", "conversion_time", "conversion_value", "order_id"}

\* The call of main.py lines 250-255: each keyword it passes, with the
\* attribute of the validated object it reads for it.
AddConversionCall ==
  [ctid |-> "ctid", gclid |-> "gclid", conversion_time |-> "dateTime",
   conversion_value |-> "commission"]

\* Line 247: the provided dateTime, or datetime.utcnow().isoformat() (on a
\* host whose system zone is UTC, the zone astimezone assumes for it).
PostbackTime(dateTime, clock) ==
  IF Truthy(dateTime) THEN dateTime.text[1] ELSE IsoZ(clock \div Res)

Rejected(st, status) == [store |-> st, status |-> status, calls |-> <<>>]

\* receive_postback without validation and with the account passed under
\* the name add_conversion declares.
receive_postback_NoValidation(st, clock, q, fl) ==
  LET r == add_conversion(st, clock, q.ctid, q.gclid,
                          PostbackTime(q.dateTime, clock), q.commission, None, fl)
  IN  [store |-> r.store, status |-> IF r.ok THEN 200 ELSE 500, calls |-> r.calls]

\* receive_postback (main.py lines 190-282): the store afterwards, the HTTP
\* status and the store calls made.
receive_postback(st, clock, q, fl) ==
  LET v == PostbackRequest(PostbackKwargs(q))
      postback == v.value
  IN  IF v.errors # {}
      THEN Rejected(st, 400)                              \* lines 277-279
      ELSE IF ~Truthy(postback["utmSource"])
                \/ Lower(postback["utmSource"].text) # <<"google">>
      THEN Rejected(st, 500)        \* line 239, caught and re-raised at 280-282
      ELSE IF \E k \in DOMAIN AddConversionCall :
                AddConversionCall[k] \notin DOMAIN postback
      THEN Rejected(st, 500)        \* AttributeError, lines 280-282
      ELSE IF ~(DOMAIN AddConversionCall \subseteq AddConversionParams)
                \/ ~({"src", "gclid", "conversion_time"} \subseteq DOMAIN AddConversionCall)
      THEN Rejected(st, 500)        \* TypeError, lines 280-282
      ELSE LET r == add_conversion(st, clock, postback[AddConversionCall["src"]],
                                   postback["gclid"],
                                   PostbackTime(postback["dateTime"], clock),
                                   postback["commission"], None, fl)
           IN  IF ~r.ok
               THEN [store |-> r.store, status |-> 500, calls |-> r.calls]
               ELSE [store |-> r.store, status |-> 200,
                     calls |-> r.calls \o <<Get(postback["src"]),
                                            Get(HistorySrc(postback["src"]))>>]

\* The postbacks a caller sends.
Requests ==
  [gclid : {<<>>, <<"g1">>},
   ctid : {<<"1">>, <<"1", HYPHEN>>, <<"x">>},
   commission : {<<5>>, <<-1>>},
   dateTime : {None, Some(<<IsoZ(1)>>), Some(<<"not-a-date">>)},
   utmSource : {None, Some(<<"Google">>), Some(<<"bing">>)}]

\* GET or POST /postback.
ReceivePostback(q, fl) ==
  /\ Idle
  /\ RowLines(store) < MaxRows
  /\ LET r == receive_postback(store, now, q, fl)
         row == RowOf(q.gclid, PostbackTime(q.dateTime, now), q.commission, None)
     IN  /\ store' = r.store
         /\ last' = Ret("postback", q.ctid, 0, row, r.status = 200, 0, 0,
                        [status |-> r.status, q |-> q], fl, r.calls)
         /\ appended' = IF r.status = 200 /\ q.ctid \in AnySrcs
                        THEN [appended EXCEPT ![q.ctid] = Append(@, row)]
                        ELSE appended
  /\ UNCHANGED <<now, pc, loc>>
  /\ UNCHANGED authVars

(* SpecPostback: postbacks of every kind against a store that never fails, *)
(* next to the dashboard's account creation and direct appends             *)

NextPostback ==
  \/ \E q \in Requests : ReceivePostback(q, NoFail)
  \/ CreateEmptySource(MainSrc, NoFail)
  \/ \E t \in ConversionTimes : AddConversion(MainSrc, <<"g1">>, t, <<>>, None, NoFail)
  \/ \E t \in ClockValues : Advance(t)

SpecPostback == Init /\ [][NextPostback]_vars

\* The request's timestamp is absent or is no ISO-8601 timestamp.
NoUsableTime(q) == q.dateTime.none \/ ~fromisoformat(q.dateTime.text[1]).ok

\* Everything but the timestamp is acceptable: a non-empty click id, an
\* account id of digits, utmSource 'google' and no negative commission.
AcceptableButTime(q) ==
  /\ q.gclid # <<>>
  /\ IsDigit(q.ctid)
  /\ Truthy(q.utmSource) /\ Lower(q.utmSource.text) = <<"google">>
  /\ q.commission = <<>> \/ q.commission[1] >= 0

\* The request is invalid: empty click id, account id with a character
\* that is no digit, negative commission, or a utmSource other than google.
InvalidPostback(q) ==
  \/ q.gclid = <<>>
  \/ ~IsDigit(q.ctid)
  \/ q.commission # <<>> /\ q.commission[1] < 0
  \/ ~Truthy(q.utmSource) \/ Lower(q.utmSource.text) # <<"google">>

\* C15: a postback with a non-empty gclid, a digits-only ctid and utmSource
\* google is answered with success and appends exactly one record, that of
\* its gclid, to the log keyed by its ctid.
C15_ValidPostbackAccepted ==
  [][(last'.op = "postback" /\ AcceptableButTime(last'.results.q)
        /\ ~NoUsableTime(last'.results.q)) =>
       LET q == last'.results.q
       IN  /\ last'.results.status = 200
           /\ DataLines(store', q.ctid) = DataLines(store, q.ctid) \o <<last'.row>>
           /\ StartsWith(last'.row, q.gclid[1])]_vars

C17_TimestampFallback ==
  [][(last'.op = "postback" /\ AcceptableButTime(last'.results.q)
        /\ NoUsableTime(last'.results.q)) =>
       LET q == last'.results.q
           lines == DataLines(store', q.ctid)
       IN  /\ last'.results.status = 200
           /\ lines # <<>>
           /\ lines[Len(lines)] = NewRow(q.gclid, strftime(astimezone(now \div Res)),
                                         q.commission, None)]_vars

-----------------------------------------------------------------------------
(* SpecCodec: the row add_conversion builds, for every kind of argument *)

\* An order id that holds a comma.
CommaOrderId == Some(<<"o2", COMMA, "o3">>)

\* Lines 134-158 of add_conversion: the row built for the arguments, kept
\* with the fields it was built from.
EncodeRow(gclid, conversion_time, conversion_value, order_id) ==
  /\ Idle
  /\ LET formatted_time == FormatConversionTime(conversion_time, now)
     IN  last' = Ret("encode", <<>>, 0,
                     NewRow(gclid, formatted_time, conversion_value, order_id),
                     TRUE, 0, 0,
                     [gclid |-> gclid, formatted_time |-> formatted_time,
                      conversion_value |-> conversion_value, order_id |-> order_id],
                     NoFail, <<>>)
  /\ UNCHANGED <<store, now, appended, pc, loc>>
  /\ UNCHANGED authVars

NextCodec ==
  \/ \E g \in AppendGclids, t \in ConversionTimes, v \in Values,
        o \in OrderIds \cup {CommaOrderId} : EncodeRow(g, t, v, o)
  \/ \E t \in ClockValues : Advance(t)

SpecCodec == Init /\ [][NextCodec]_vars

\* C18: the row built for a record splits on ',' into exactly six fields:
\* the click id, the conversion name, the timestamp, the value (empty when
\* absent), the currency and the order id (empty when absent).
C18_CodecRoundTrip ==
  last.op = "encode" =>
    Split(last.row, COMMA) =
      <<last.results.gclid, <<CONVERSION_NAME>>, <<last.results.formatted_time>>,
        ValueText(last.results.conversion_value), <<CURRENCY>>,
        OrderText(last.results.order_id)>>

-----------------------------------------------------------------------------
\* C19: an operation on one account identifier makes no store call on the
\* main-log key or the history-log key of any other identifier, and leaves
\* both as they were.
C19_CrossAccountIndependence ==
  [][last'.op \in {"add", "create", "cleanup"} =>
       \A b \in AnySrcs \ {last'.src} :
         /\ ~Touches(last'.calls, Key(b))
         /\ ~Touches(last'.calls, Key(HistorySrc(b)))
         /\ SameAt(store, store', Key(b))
         /\ SameAt(store, store', Key(HistorySrc(b)))]_vars

\* The record lines of a stored log: its lines that are neither blank nor
\* the header line; none for an absent log.
StoredRecords(st, src) ==
  IF Key(src) \in DOMAIN st THEN RecordLines(st[Key(src)]) ELSE <<>>

\* C20: every non-blank line that is not the header line is a record to
\* each scanner: an append keeps them all and adds its row, an archive pass
\* leaves each of them in the main log or adds it to history, and the count
\* reported is their number.
C20_DataLineClassification ==
  [][/\ last'.op = "add" /\ last'.ok =>
          StoredRecords(store', last'.src) = StoredRecords(store, last'.src) \o <<last'.row>>
     /\ last'.op = "cleanup" =>
          Len(StoredRecords(store', last'.src))
            + Len(StoredRecords(store', HistorySrc(last'.src)))
            = Len(StoredRecords(store, last'.src))
                + Len(StoredRecords(store, HistorySrc(last'.src)))
     /\ get_conversion_count(store', MainSrc).recent
          = Len(StoredRecords(store', MainSrc))]_vars

-----------------------------------------------------------------------------
(* Conservation of records *)

\* How many times x occurs in a sequence.
Count(x, seq) == Cardinality({i \in 1..Len(seq) : seq[i] = x})

\* The record lines of an account: those of its main log followed by those
\* of its history log.
AllRecords(st, src) == StoredRecords(st, src) \o StoredRecords(st, HistorySrc(src))

\* C21: every row add_conversion reported as saved is in the account's main
\* log and history log together as many times as it was appended: none is
\* lost, none is duplicated.
C21_RecordConservation ==
  \A r \in Range(appended[MainSrc]) :
    Count(r, AllRecords(store, MainSrc)) = Count(r, appended[MainSrc])

-----------------------------------------------------------------------------
(* SpecArchiveFail: appends that succeed, and archive passes of one        *)
(* account run against a store whose calls may fail                        *)

NextArchiveFail ==
  \/ \E g \in Gclids, t \in ConversionTimes :
       AddConversion(MainSrc, g, t, <<>>, None, NoFail)
  \/ \E fl \in AnyFail : CleanupOldConversions(MainSrc, DefaultHours, fl)
  \/ \E t \in ClockValues : Advance(t)

SpecArchiveFail == Init /\ [][NextArchiveFail]_vars

\* The step is an archive pass whose reads all succeeded.
PassWithReads == last'.op = "cleanup" /\ ~last'.fl[1] /\ ~last'.fl[3]

\* C22: whatever writes fail during an archive pass, every record that was
\* in the main log before the pass is in the main log or in the history
\* log after it.
C22_NoLossOnFailedWrite ==
  [][PassWithReads =>
       \A r \in Range(StoredRecords(store, last'.src)) :
         InSeq(r, AllRecords(store', last'.src))]_vars

\* C23: the counts an archive pass returns are the number of records it
\* added to the history log and the number of records in the main log
\* after it, also when a write of the pass fails.
C23_TruthfulCounts ==
  [][PassWithReads =>
       /\ last'.archived = Len(StoredRecords(store', HistorySrc(last'.src)))
                             - Len(StoredRecords(store, HistorySrc(last'.src)))
       /\ last'.remaining = Len(StoredRecords(store', last'.src))]_vars

-----------------------------------------------------------------------------
(* SpecArchiveRace: two workers archive the same account one store call at *)
(* a time; appends happen only while no pass is running; no store failure  *)

NextArchiveRace ==
  \/ \E g \in Gclids, t \in ConversionTimes :
       AddConversion(MainSrc, g, t, <<>>, None, NoFail)
  \/ \E p \in Procs : CleanupRead(p, MainSrc, DefaultHours)
  \/ \E p \in Procs : CleanupSaveMain(p)
  \/ \E p \in Procs : CleanupHistRead(p)
  \/ \E p \in Procs : CleanupHistSave(p)
  \/ \E t \in ClockValues : Advance(t)

SpecArchiveRace == Init /\ [][NextArchiveRace]_vars

\* C24: once the archive passes have completed, every appended record is
\* in the main log and the history log together exactly as many times as
\* it was appended, however the passes interleaved.
C24_ConcurrentArchival ==
  Idle =>
    \A r \in Range(appended[MainSrc]) :
      Count(r, AllRecords(store, MainSrc)) = Count(r, appended[MainSrc])

-----------------------------------------------------------------------------
\* C25: an archive pass that follows at once a pass on the same account
\* with the same cutoff archives nothing, reports the remaining count the
\* first pass reported and leaves every log exactly as the first left it.
C25_ArchiveIdempotent ==
  [][(last'.op = "cleanup" /\ last'.results # <<>>) =>
       /\ last'.archived = 0
       /\ last'.remaining = last'.results.first.remaining
       /\ store' = store]_vars

\* C25 witness: a second pass has run right after a pass that archived
\* records and kept others.
C25_Witness ==
  /\ last.op = "cleanup"
  /\ last.results # <<>>
  /\ last.results.first.archived >= 1
  /\ last.results.first.remaining >= 1
  /\ Len(StoredRecords(store, last.src)) >= 1
  /\ Len(StoredRecords(store, HistorySrc(last.src))) >= 1

-----------------------------------------------------------------------------
(* Store calls per key *)

\* The kinds of the calls made on a key, in order.
CallsOn(calls, key) ==
  LET on == SelectSeq(calls, LAMBDA c : c[2] = key)
  IN  [i \in 1..Len(on) |-> on[i][1]]

\* The keys the calls name.
KeysOf(calls) == {calls[i][2] : i \in 1..Len(calls)}

\* The step is one create, append or manual archive call.
OneOperation == last'.op \in {"create", "add", "cleanup"}

\* C26 as stated: each operation makes exactly one read and then exactly
\* one write on every key it touches.
C26_OneReadOneWrite ==
  [][OneOperation =>
       \A key \in KeysOf(last'.calls) : CallsOn(last'.calls, key) = <<"get", "put">>]_vars

\* C26 amended: each operation reads every key it touches exactly once and
\* then writes it at most once.  It touches its main key always and reads
\* it first; the write is left out exactly when create finds the log
\* present or archive finds no log; archive touches the history key, with
\* one read then one write, exactly when it archived at least one record.
C26_CallCount ==
  [][OneOperation =>
       LET src == last'.src
           calls == last'.calls
           present == Truthy(get_csv(store, src, FALSE))
           noWrite == \/ last'.op = "create" /\ present
                      \/ last'.op = "cleanup" /\ ~present
       IN  /\ CallsOn(calls, Key(src)) = IF noWrite THEN <<"get">> ELSE <<"get", "put">>
           /\ IF last'.op = "cleanup" /\ last'.archived > 0
              THEN /\ KeysOf(calls) = {Key(src), Key(HistorySrc(src))}
                   /\ CallsOn(calls, Key(HistorySrc(src))) = <<"get", "put">>
              ELSE KeysOf(calls) = {Key(src)}]_vars

\* C26 witness: an archive pass on an account without a log made its one
\* read and no write, while the store holds another log.
C26_Witness ==
  /\ last.op = "cleanup"
  /\ Key(last.src) \notin DOMAIN store
  /\ last.calls = <<Get(last.src)>>
  /\ store # <<>>

-----------------------------------------------------------------------------
(* Dashboard login, auth.py *)

\* A lockout starts at the fifth recorded failure (line 50) and the test of
\* line 36 compares with 900 seconds; timedelta.seconds, which that test
\* reads, is the part of the difference below one day.
MaxFailed == 5
BlockSeconds == 900
SecondsPerDay == 86400

\* Days the clock runs over.
MaxDays == 1

\* The clock values: the start of each day, the last second of a lockout
\* that began then, and the second after.
AuthTimes ==
  {d * SecondsPerDay + o : d \in 0..MaxDays, o \in {0, BlockSeconds - 1, BlockSeconds}}

\* Client addresses, as get_client_ip returns them (lines 24-29).
Ips == {"10.0.0.1", "10.0.0.2"}

\* The configured credentials (config.py lines 21-22) and the ones a
\* browser sends.
DASHBOARD_USERNAME == "admin"
DASHBOARD_PASSWORD == "secret"
Credentials ==
  {[username |-> u, password |-> w] :
     u \in {DASHBOARD_USERNAME, "guest"}, w \in {DASHBOARD_PASSWORD, "wrong"}}

\* Python dict operations: d[k] = v, del d[k], d.get(k, default).
DictSet(d, k, v) == [x \in DOMAIN d \cup {k} |-> IF x = k THEN v ELSE d[x]]
DictDel(d, k) == [x \in DOMAIN d \ {k} |-> d[x]]
DictGet(d, k, default) == IF k \in DOMAIN d THEN d[k] ELSE default

\* (later - earlier).seconds of a timedelta: the seconds left after whole
\* days are taken out (line 36).
Seconds(delta) == delta % SecondsPerDay

\* is_ip_blocked (lines 32-43): the verdict and the two dicts afterwards.
is_ip_blocked(fa, bl, t, ip) ==
  IF ip \in DOMAIN bl
  THEN IF Seconds(t - bl[ip]) < BlockSeconds
       THEN [blocked |-> TRUE, failed_attempts |-> fa, blocked_ips |-> bl]
       ELSE [blocked |-> FALSE, failed_attempts |-> DictSet(fa, ip, 0),
             blocked_ips |-> DictDel(bl, ip)]
  ELSE [blocked |-> FALSE, failed_attempts |-> fa, blocked_ips |-> bl]

\* record_failed_attempt (lines 46-52).
record_failed_attempt(fa, bl, t, ip) ==
  LET n == DictGet(fa, ip, 0) + 1
  IN  [failed_attempts |-> DictSet(fa, ip, n),
       blocked_ips |-> IF n >= MaxFailed THEN DictSet(bl, ip, t) ELSE bl]

\* Both compare_digest results of lines 81-86.
Correct(credentials) ==
  /\ credentials.username = DASHBOARD_USERNAME
  /\ credentials.password = DASHBOARD_PASSWORD

\* authenticate_dashboard (lines 55-103): the HTTP status (200 when the
\* username is returned) and the two dicts afterwards.
authenticate_dashboard(fa, bl, t, client_ip, credentials) ==
  LET b == is_ip_blocked(fa, bl, t, client_ip)
  IN  IF b.blocked
      THEN [status |-> 429, failed_attempts |-> b.failed_attempts,
            blocked_ips |-> b.blocked_ips]
      ELSE IF ~Correct(credentials)
      THEN LET r == record_failed_attempt(b.failed_attempts, b.blocked_ips, t, client_ip)
           IN  [status |-> 401, failed_attempts |-> r.failed_attempts,
                blocked_ips |-> r.blocked_ips]
      ELSE [status |-> 200,
            failed_attempts |-> IF client_ip \in DOMAIN b.failed_attempts
                                THEN DictSet(b.failed_attempts, client_ip, 0)
                                ELSE b.failed_attempts,
            blocked_ips |-> b.blocked_ips]

\* One request to an endpoint that depends on authenticate_dashboard.
Authenticate(ip, credentials) ==
  /\ LET r == authenticate_dashboard(failed_attempts, blocked_ips, authClock, ip, credentials)
     IN  /\ failed_attempts' = r.failed_attempts
         /\ blocked_ips' = r.blocked_ips
         /\ last' = Ret("auth", <<>>, 0, <<>>, r.status = 200, 0, 0,
                        [status |-> r.status, ip |-> ip, credentials |-> credentials],
                        NoFail, <<>>)
  /\ UNCHANGED <<store, now, appended, pc, loc, authClock>>

\* Time passes.
Tick(t) ==
  /\ t > authClock
  /\ authClock' = t
  /\ last' = NoRet("tick")
  /\ UNCHANGED <<store, now, appended, pc, loc, failed_attempts, blocked_ips>>

NextAuth ==
  \/ \E ip \in Ips, c \in Credentials : Authenticate(ip, c)
  \/ \E t \in AuthTimes : Tick(t)

SpecAuth == Init /\ [][NextAuth]_vars

\* C27: once an address has five recorded failures (blocked_ips holds the
\* time of the fifth, line 51), every attempt from it is answered 429 while
\* fewer than 900 seconds have passed since then, and from then on an
\* attempt with the right credentials is answered 200 and leaves the
\* address's failure count at 0.
C27_LoginLockout ==
  [][(last'.op = "auth" /\ last'.results.ip \in DOMAIN blocked_ips) =>
       LET ip == last'.results.ip
           elapsed == authClock - blocked_ips[ip]
       IN  IF elapsed < BlockSeconds
           THEN last'.results.status = 429
           ELSE Correct(last'.results.credentials) =>
                  /\ last'.results.status = 200
                  /\ failed_attempts'[ip] = 0]_vars

=============================================================================
